---- MODULE Spec2Model ----
(***************************************************************************)
(* The activity recorder of unsmartwatch: the RunningTracker React         *)
(* component.  The repository holds two variants of it:                    *)
(*   "part_001"    src/unnamed/part_001         (throttled, smoothed pace) *)
(*   "running_map" src/app/running-map.tsx:232  (plain 30 s pace)          *)
(* Each handler is one action: the handler's state updates followed by the *)
(* render and the effect passes React runs for them (Commit).              *)
(*                                                                         *)
(* Units: the clock, timestamps and Date.now() count whole seconds; events *)
(* of the same second are ordered, so an event can still precede a timer   *)
(* that is due in that second.  Distances count tenths of a kilometre      *)
(* along one meridian, where the haversine distance is proportional to the *)
(* latitude difference.                                                    *)
(***************************************************************************)
EXTENDS Integers, Sequences, FiniteSets, TLC

VARIABLES
  variant,              \* which of the two source variants runs
  geolocation,          \* navigator.geolocation exists
  bluetooth,            \* "bluetooth" in navigator
  mounted,              \* the component is mounted
  now,                  \* Date.now(), in seconds
  isRunning, time, distance, currentPace, positions, laps, watchId,
  permissionDenied, error, heartRate, heartRateData, isHeartRateConnected,
  bluetoothSupported, activityCompleted, activity,
  timerRef, lastPositionsRef, startTimeRef, lastPaceUpdateRef, recentPacesRef,
  timerDue,             \* when the live setInterval fires next, Null if none
  watchActive,          \* the geolocation watch is live
  watchTime,            \* `time` as closed over by the live watch's callback
  gattConnected,        \* heartRateDeviceRef.current.gatt.connected
  hrListening,          \* a characteristicvaluechanged listener is notified
  download,             \* the file the latest step offered to the host, if any
  pushLog,              \* history: each raw pace pushed and when it was pushed
  twin,                 \* the other variant's component given the same inputs, if any
  last                  \* the handler that ran last

vars == <<variant, geolocation, bluetooth, mounted, now, isRunning, time,
          distance, currentPace, positions, laps, watchId, permissionDenied,
          error, heartRate, heartRateData, isHeartRateConnected,
          bluetoothSupported, activityCompleted, activity, timerRef,
          lastPositionsRef, startTimeRef, lastPaceUpdateRef, recentPacesRef,
          timerDue, watchActive, watchTime, gattConnected, hrListening,
          download, pushLog, twin, last>>

(***************************************************************************)
(* Bounds of the model.                                                    *)
(***************************************************************************)
MaxTime == 1       \* timer ticks per session
MaxItems == 3      \* fixes + laps + heart-rate samples held at a time
MaxNow == 1        \* seconds the clock advances
MaxExportFixes == 2    \* fixes of a finished session that is exported
MaxExportSamples == 2  \* its heart-rate samples; one more may still arrive
MaxPaceFixes == 5      \* fixes of a session recorded in several segments
MaxPaceNow == 37       \* seconds the clock covers over those segments
MaxHistoryNow == 19    \* seconds the clock covers where the pace is throttled
MaxFixDelay == 1       \* seconds a fix may be older than the fix before it
MaxThrottleNow == 2    \* seconds the clock covers around a reset
MaxPaceNum == 12       \* paces formatted: numerators 0..MaxPaceNum
MaxPaceDen == 7        \*   over denominators 1..MaxPaceDen

(***************************************************************************)
(* Program constants, in the model's units.                                *)
(***************************************************************************)
Null == 0 - 1                \* null / undefined of a numeric field
NoError == "null"            \* error === null
NowInit == 100               \* Date.now() at mount (far from the epoch)
UnitsPerSecond == 1          \* clock units per 1000 ms
IntervalUnits == 1           \* setInterval(..., 1000)
UnitsPerMinute == 60         \* / 1000 / 60
UnitsPerKm == 10             \* distance units per kilometre
PaceThrottle == 5            \* now - lastPaceUpdateRef.current > 5000
PaceWindowSeconds == 60      \* getRecentPositions(..., 60), part_001
MapPaceWindowSeconds == 30   \* getRecentPositions(..., 30), running_map
MaxRecentPaces == 3          \* recentPacesRef.current.length > 3
TimerId == 1                 \* the id setInterval returns (truthy)
WatchIdValue == 1            \* the id watchPosition returns (truthy)
ClosestWindowSeconds == 10   \* minDiff <= 10000
SecondsPerDay == 86400       \* toISOString().split("T")[0]: the date part

Variants == {"part_001", "running_map"}

(***************************************************************************)
(* Inputs: what the location service and the peripheral deliver.           *)
(***************************************************************************)
Coords ==
  { [latitude |-> 0, longitude |-> 0, accuracy |-> 5,
     altitude |-> 0, altitudeAccuracy |-> 0],
    [latitude |-> 1, longitude |-> 0, accuracy |-> 5,
     altitude |-> 7, altitudeAccuracy |-> 3] }

\* PositionError.code: 1 PERMISSION_DENIED, 2 POSITION_UNAVAILABLE, 3 TIMEOUT
ErrorCodes == {1, 2, 3}

\* characteristic values: flags byte, then the rate (8 bit, or 16 bit LE)
Buffers == { <<>>, <<0, 60>>, <<1, 61, 0>> }

ConnectOutcomes == {"cancelled", "gattFailed", "serviceFailed", "connected"}

\* measurement values with other flag bits set, a 16-bit rate above 255, a
\* rate of 0 (no skin contact) and truncated values
WideBuffers ==
  { <<>>, <<1>>, <<0, 72>>, <<1, 150, 0>>, <<22, 72>>, <<17, 44, 1>>,
    <<16, 72, 9>>, <<0, 0>> }

(***************************************************************************)
(* Pure helpers.                                                           *)
(***************************************************************************)
Abs(x) == IF x < 0 THEN 0 - x ELSE x

\* x || undefined
OrUndefined(x) == IF x = Null \/ x = 0 THEN Null ELSE x

padStart2(n) == IF n < 10 THEN "0" \o ToString(n) ELSE ToString(n)

\* formatTime without the padStart(2, "0") of the seconds
formatTime_NoPad(seconds) ==
  LET hrs == seconds \div 3600
      mins == (seconds % 3600) \div 60
      secs == seconds % 60
  IN IF hrs > 0
       THEN ToString(hrs) \o ":" \o padStart2(mins) \o ":" \o ToString(secs)
       ELSE ToString(mins) \o ":" \o ToString(secs)

formatTime(seconds) ==
  LET hrs == seconds \div 3600
      mins == (seconds % 3600) \div 60
      secs == seconds % 60
  IN IF hrs > 0
       THEN ToString(hrs) \o ":" \o padStart2(mins) \o ":" \o padStart2(secs)
       ELSE ToString(mins) \o ":" \o padStart2(secs)

\* formatPace with the seconds rounded to the nearest
formatPace_Rounded(pace) ==
  IF pace[2] = 0 THEN "Infinity:NaN"
  ELSE LET minutes == pace[1] \div pace[2]
           seconds == (2 * (pace[1] - minutes * pace[2]) * 60 + pace[2])
                        \div (2 * pace[2])
       IN ToString(minutes) \o ":" \o padStart2(seconds)

\* a pace is the rational p[1] / p[2] minutes per kilometre; p[2] = 0 is Infinity
formatPace(pace) ==
  IF pace[2] = 0 THEN "Infinity:NaN"
  ELSE LET minutes == pace[1] \div pace[2]
           seconds == ((pace[1] - minutes * pace[2]) * 60) \div pace[2]
       IN ToString(minutes) \o ":" \o padStart2(seconds)

calculateDistance(pos1, pos2) == Abs(pos2.latitude - pos1.latitude)

RECURSIVE calculateTotalDistance(_)
calculateTotalDistance(ps) ==
  IF Len(ps) <= 1 THEN 0
  ELSE calculateTotalDistance(SubSeq(ps, 1, Len(ps) - 1))
       + calculateDistance(ps[Len(ps) - 1], ps[Len(ps)])

getRecentPositions(ps, seconds) ==
  IF Len(ps) <= 1 THEN ps
  ELSE LET cutoff == ps[Len(ps)].timestamp - seconds * UnitsPerSecond
       IN SelectSeq(ps, LAMBDA pos : pos.timestamp >= cutoff)

RECURSIVE SumHeartRate(_)
SumHeartRate(hs) ==
  IF hs = <<>> THEN 0 ELSE hs[1].heartRate + SumHeartRate(Tail(hs))

\* Math.round(sum / length) of non-negative integers: halves round up
RoundDiv(sum, n) == (2 * sum + n) \div (2 * n)

\* the mean truncated (Math.floor) instead of rounded
averageHeartRate_Truncated(hs) ==
  IF Len(hs) > 0 THEN SumHeartRate(hs) \div Len(hs) ELSE Null

averageHeartRate(hs) ==
  IF Len(hs) > 0 THEN RoundDiv(SumHeartRate(hs), Len(hs)) ELSE Null

RECURSIVE Gcd(_, _)
Gcd(a, b) == IF b = 0 THEN a ELSE Gcd(b, a % b)

\* a number as the fraction in lowest terms: equal numbers are equal pairs
Fraction(num, den) ==
  LET g == Gcd(num, den)
  IN IF g = 0 THEN <<0, 1>> ELSE <<num \div g, den \div g>>

RECURSIVE SumPaces(_)
SumPaces(ps) ==
  IF ps = <<>> THEN <<0, 1>>
  ELSE LET r == SumPaces(Tail(ps))
       IN Fraction(ps[1][1] * r[2] + r[1] * ps[1][2], ps[1][2] * r[2])

\* the sum divided by the capacity of the history
averagePace_ByCapacity(ps) ==
  Fraction(SumPaces(ps)[1], SumPaces(ps)[2] * MaxRecentPaces)

averagePace(ps) == Fraction(SumPaces(ps)[1], SumPaces(ps)[2] * Len(ps))

\* a decoder that compares the whole flags byte with 1
decodeMeasurement_WholeFlags(value) ==
  IF Len(value) < 1 THEN Null
  ELSE IF value[1] = 1
         THEN IF Len(value) < 3 THEN Null ELSE value[2] + 256 * value[3]
         ELSE IF Len(value) < 2 THEN Null ELSE value[2]

\* DataView reads: Null stands for the RangeError of a read past the end
decodeMeasurement(value) ==
  IF Len(value) < 1 THEN Null
  ELSE IF value[1] % 2 = 1
         THEN IF Len(value) < 3 THEN Null ELSE value[2] + 256 * value[3]
         ELSE IF Len(value) < 2 THEN Null ELSE value[2]

\* findClosestHeartRate: the scan from the first sample on, replacing the
\* closest only on a strictly smaller difference
RECURSIVE closestFrom(_, _, _, _)
closestFrom(heartRates, timestamp, i, closest) ==
  IF i > Len(heartRates) THEN closest
  ELSE IF Abs(timestamp - heartRates[i].timestamp)
            < Abs(timestamp - closest.timestamp)
         THEN closestFrom(heartRates, timestamp, i + 1, heartRates[i])
         ELSE closestFrom(heartRates, timestamp, i + 1, closest)

\* the window test with < in place of <=
findClosestHeartRate_Exclusive(heartRates, timestamp) ==
  IF Len(heartRates) = 0 THEN Null
  ELSE LET closest == closestFrom(heartRates, timestamp, 2, heartRates[1])
           minDiff == Abs(timestamp - closest.timestamp)
       IN IF minDiff < ClosestWindowSeconds * UnitsPerSecond
            THEN closest.heartRate
            ELSE Null

findClosestHeartRate(heartRates, timestamp) ==
  IF Len(heartRates) = 0 THEN Null
  ELSE LET closest == closestFrom(heartRates, timestamp, 2, heartRates[1])
           minDiff == Abs(timestamp - closest.timestamp)
       IN IF minDiff <= ClosestWindowSeconds * UnitsPerSecond
            THEN closest.heartRate
            ELSE Null

\* new Date(t).toISOString(): the date part, "T", the time of day
toISOString(t) ==
  ToString(t \div (SecondsPerDay * UnitsPerSecond)) \o "T"
    \o ToString(t % (SecondsPerDay * UnitsPerSecond)) \o "Z"

\* toISOString().split("T")[0]
datePart(t) == ToString(t \div (SecondsPerDay * UnitsPerSecond))

Element(tag, text) == [tag |-> tag, text |-> text]

\* an <ele> written for every fix
eleElement_Always(pos) == <<Element("ele", ToString(pos.altitude))>>

\* if (pos.altitude !== undefined) gpx += <ele>
eleElement(pos) ==
  IF pos.altitude # Null
    THEN <<Element("ele", ToString(pos.altitude))>>
    ELSE <<>>

\* if (closestHR) gpx += <extensions>: 0 is falsy as null is
extensionsElement(closestHR) ==
  IF closestHR # Null /\ closestHR # 0
    THEN <<Element("extensions", ToString(closestHR))>>
    ELSE <<>>

\* one <trkpt> with its children in document order
trackPoint(pos, heartRates) ==
  [lat |-> pos.latitude,
   lon |-> pos.longitude,
   children |-> eleElement(pos)
                \o <<Element("time", toISOString(pos.timestamp))>>
                \o extensionsElement(
                     findClosestHeartRate(heartRates, pos.timestamp))]

\* a generateGPX that skips a fix equal to the one before it
generateGPX_Dedup(a) ==
  LET kept == SelectSeq([i \in 1..Len(a.positions) |-> i],
                        LAMBDA i : i = 1 \/ a.positions[i] # a.positions[i - 1])
  IN [time |-> toISOString(a.startTime),
      name |-> "Running Activity on " \o datePart(a.startTime),
      trkseg |-> [i \in 1..Len(kept) |->
                    trackPoint(a.positions[kept[i]], a.heartRates)]]

\* generateGPX: the metadata time, the track name and the track points
generateGPX(a) ==
  [time |-> toISOString(a.startTime),
   name |-> "Running Activity on " \o datePart(a.startTime),
   trkseg |-> [i \in 1..Len(a.positions) |->
                 trackPoint(a.positions[i], a.heartRates)]]

(***************************************************************************)
(* The component's state as one record, and the render/effect machinery.   *)
(***************************************************************************)
Cur ==
  [variant |-> variant, geolocation |-> geolocation, bluetooth |-> bluetooth,
   mounted |-> mounted, now |-> now, isRunning |-> isRunning, time |-> time,
   distance |-> distance, currentPace |-> currentPace,
   positions |-> positions, laps |-> laps, watchId |-> watchId,
   permissionDenied |-> permissionDenied, error |-> error,
   heartRate |-> heartRate, heartRateData |-> heartRateData,
   isHeartRateConnected |-> isHeartRateConnected,
   bluetoothSupported |-> bluetoothSupported,
   activityCompleted |-> activityCompleted, activity |-> activity,
   timerRef |-> timerRef, lastPositionsRef |-> lastPositionsRef,
   startTimeRef |-> startTimeRef, lastPaceUpdateRef |-> lastPaceUpdateRef,
   recentPacesRef |-> recentPacesRef, timerDue |-> timerDue,
   watchActive |-> watchActive, watchTime |-> watchTime,
   gattConnected |-> gattConnected, hrListening |-> hrListening,
   pushLog |-> pushLog]

\* the state a handler leaves; only exportGPX offers a file to the host
Settles(s) ==
  /\ variant' = s.variant
  /\ geolocation' = s.geolocation
  /\ bluetooth' = s.bluetooth
  /\ mounted' = s.mounted
  /\ now' = s.now
  /\ isRunning' = s.isRunning
  /\ time' = s.time
  /\ distance' = s.distance
  /\ currentPace' = s.currentPace
  /\ positions' = s.positions
  /\ laps' = s.laps
  /\ watchId' = s.watchId
  /\ permissionDenied' = s.permissionDenied
  /\ error' = s.error
  /\ heartRate' = s.heartRate
  /\ heartRateData' = s.heartRateData
  /\ isHeartRateConnected' = s.isHeartRateConnected
  /\ bluetoothSupported' = s.bluetoothSupported
  /\ activityCompleted' = s.activityCompleted
  /\ activity' = s.activity
  /\ timerRef' = s.timerRef
  /\ lastPositionsRef' = s.lastPositionsRef
  /\ startTimeRef' = s.startTimeRef
  /\ lastPaceUpdateRef' = s.lastPaceUpdateRef
  /\ recentPacesRef' = s.recentPacesRef
  /\ timerDue' = s.timerDue
  /\ watchActive' = s.watchActive
  /\ watchTime' = s.watchTime
  /\ gattConnected' = s.gattConnected
  /\ hrListening' = s.hrListening
  /\ download' = <<>>
  /\ pushLog' = s.pushLog

\* a handler of the one component that is mounted
Becomes(s) == Settles(s) /\ twin' = twin

\* clearInterval(timerRef.current): timerRef always names the live interval
clearInterval(s) == [s EXCEPT !.timerDue = Null]

\* navigator.geolocation.clearWatch(id)
clearWatch(s, id) ==
  IF id = WatchIdValue THEN [s EXCEPT !.watchActive = FALSE] ELSE s

\* an Activity built without the laps
MakeActivity_DropsLaps(s) ==
  LET endTime == s.now
  IN [startTime |-> IF s.startTimeRef # Null /\ s.startTimeRef # 0
                      THEN s.startTimeRef
                      ELSE endTime - s.time * UnitsPerSecond,
      endTime |-> endTime,
      totalTime |-> s.time,
      totalDistance |-> s.distance,
      positions |-> s.positions,
      heartRates |-> s.heartRateData,
      laps |-> <<>>]

\* the Activity the timer effect builds from the rendered state
MakeActivity(s) ==
  LET endTime == s.now
  IN [startTime |-> IF s.startTimeRef # Null /\ s.startTimeRef # 0
                      THEN s.startTimeRef
                      ELSE endTime - s.time * UnitsPerSecond,
      endTime |-> endTime,
      totalTime |-> s.time,
      totalDistance |-> s.distance,
      positions |-> s.positions,
      heartRates |-> s.heartRateData,
      laps |-> s.laps]

\* the timer effect capturing the start timestamp whenever it runs
TimerEffect_Recaptures(s) ==
  LET c == IF s.timerRef # Null THEN clearInterval(s) ELSE s
  IN IF c.isRunning
       THEN [c EXCEPT !.startTimeRef = c.now,
                      !.timerRef = TimerId,
                      !.timerDue = c.now + IntervalUnits]
       ELSE IF c.timerRef # Null
         THEN IF c.time > 0 /\ Len(c.positions) > 0
                THEN [c EXCEPT !.activityCompleted = TRUE,
                               !.activity = <<MakeActivity(c)>>]
                ELSE c
         ELSE c

\* the timer effect without the positions.length > 0 test
TimerEffect_NoFixCheck(s) ==
  LET c == IF s.timerRef # Null THEN clearInterval(s) ELSE s
  IN IF c.isRunning
       THEN [c EXCEPT !.startTimeRef = IF @ = Null THEN c.now ELSE @,
                      !.timerRef = TimerId,
                      !.timerDue = c.now + IntervalUnits]
       ELSE IF c.timerRef # Null
         THEN IF c.time > 0
                THEN [c EXCEPT !.activityCompleted = TRUE,
                               !.activity = <<MakeActivity(c)>>]
                ELSE c
         ELSE c

\* "Start/stop the timer": the previous run's clean-up, then the effect body
TimerEffect(s) ==
  LET c == IF s.timerRef # Null THEN clearInterval(s) ELSE s
  IN IF c.isRunning
       THEN [c EXCEPT !.startTimeRef = IF @ = Null THEN c.now ELSE @,
                      !.timerRef = TimerId,
                      !.timerDue = c.now + IntervalUnits]
       ELSE IF c.timerRef # Null
         THEN IF c.time > 0 /\ Len(c.positions) > 0
                THEN [c EXCEPT !.activityCompleted = TRUE,
                               !.activity = <<MakeActivity(c)>>]
                ELSE c
         ELSE c

TimerDeps(s) ==
  <<s.isRunning, s.time, Len(s.positions), s.distance, s.positions,
    s.heartRateData, s.laps>>

\* "Start/stop GPS tracking": the previous run's clean-up (it closed over the
\* watchId of the render it ran in), then the effect body
GpsEffect(prev, s) ==
  LET c == IF prev.watchId # Null THEN clearWatch(s, prev.watchId) ELSE s
  IN IF ~c.geolocation
       THEN [c EXCEPT !.error = "Geolocation is not supported by your browser"]
       ELSE IF c.isRunning /\ c.watchId = Null
         THEN [c EXCEPT !.watchActive = TRUE, !.watchTime = c.time,
                        !.watchId = WatchIdValue]
         ELSE IF ~c.isRunning /\ c.watchId # Null
           THEN [clearWatch(c, c.watchId) EXCEPT !.watchId = Null]
           ELSE c

GpsDeps(s) ==
  IF s.variant = "part_001"
    THEN <<s.isRunning, s.watchId, s.time>>
    ELSE <<s.isRunning, s.watchId>>

\* One render of state s after the render of prev: every effect whose
\* dependencies changed runs; state an effect sets renders again.  `fresh`
\* says the handler stored new array objects (equal values, new identity).
RECURSIVE Commit(_, _, _)
Commit(prev, s, fresh) ==
  LET s1 == IF fresh \/ TimerDeps(prev) # TimerDeps(s) THEN TimerEffect(s) ELSE s
      s2 == IF GpsDeps(prev) # GpsDeps(s) THEN GpsEffect(prev, s1) ELSE s1
  IN IF GpsDeps(s2) # GpsDeps(s) THEN Commit(s, s2, FALSE) ELSE s2

(***************************************************************************)
(* Which controls the rendered tree offers.                                *)
(***************************************************************************)
\* renderStatsPanel() is rendered only without permissionDenied and error
PanelRendered == ~permissionDenied /\ error = NoError

\* the buttons without disabled={permissionDenied}
ControlsEnabled_IgnoresPermission ==
  /\ mounted
  /\ variant = "part_001" => error = NoError

\* the reset, start/stop and lap buttons: disabled={permissionDenied}; in
\* part_001 they are part of the stats panel, in running_map of the CardFooter
ControlsEnabled ==
  /\ mounted
  /\ ~permissionDenied
  /\ variant = "part_001" => PanelRendered

\* the Connect button of the heart-rate dialog
ConnectEnabled ==
  /\ mounted
  /\ PanelRendered
  /\ ~isHeartRateConnected
  /\ IF variant = "part_001"
       THEN ~(bluetoothSupported \/ isRunning)
       ELSE ~(~bluetoothSupported \/ isRunning)

\* the model holds one more fix, lap or heart-rate sample
Room == Len(positions) + Len(laps) + Len(heartRateData) < MaxItems

\* the Disconnect Heart Rate Monitor button
DisconnectEnabled ==
  /\ mounted
  /\ isHeartRateConnected
  /\ variant = "part_001" => PanelRendered

\* the Export GPX button: {activityCompleted && ...} inside the panel
ExportEnabled ==
  /\ mounted
  /\ PanelRendered
  /\ activityCompleted

(***************************************************************************)
(* Init: the component after its mount effects.                            *)
(***************************************************************************)
InitState ==
  /\ variant \in Variants
  /\ geolocation \in BOOLEAN
  /\ bluetooth \in BOOLEAN
  /\ mounted = TRUE
  /\ now = NowInit
  /\ isRunning = FALSE
  /\ time = 0
  /\ distance = 0
  /\ currentPace = "0:00"
  /\ positions = <<>>
  /\ laps = <<>>
  /\ watchId = Null
  /\ permissionDenied = FALSE
  /\ error = IF geolocation THEN NoError
             ELSE "Geolocation is not supported by your browser"
  /\ heartRate = Null
  /\ heartRateData = <<>>
  /\ isHeartRateConnected = FALSE
  /\ bluetoothSupported = bluetooth
  /\ activityCompleted = FALSE
  /\ activity = <<>>
  /\ timerRef = Null
  /\ lastPositionsRef = <<>>
  /\ startTimeRef = Null
  /\ lastPaceUpdateRef = 0
  /\ recentPacesRef = <<>>
  /\ timerDue = Null
  /\ watchActive = FALSE
  /\ watchTime = 0
  /\ gattConnected = FALSE
  /\ hrListening = FALSE
  /\ download = <<>>
  /\ pushLog = <<>>
  /\ last = "mount"

Init == InitState /\ twin = <<>>

(***************************************************************************)
(* The handlers.                                                           *)
(***************************************************************************)
\* a start that discards the Activity of the stop before
startStop_DropsActivity ==
  /\ ControlsEnabled
  /\ Becomes(Commit(Cur, IF isRunning
                           THEN [Cur EXCEPT !.isRunning = FALSE]
                           ELSE [Cur EXCEPT !.isRunning = TRUE,
                                            !.activityCompleted = FALSE,
                                            !.activity = <<>>], FALSE))
  /\ last' = IF isRunning THEN "stop" ELSE "start"

\* startStop: setIsRunning(!isRunning)
startStop ==
  /\ ControlsEnabled
  /\ Becomes(Commit(Cur, [Cur EXCEPT !.isRunning = ~isRunning], FALSE))
  /\ last' = IF isRunning THEN "stop" ELSE "start"

\* reset without setHeartRateData([])
resetState_KeepsHeartRates(s) ==
  LET c == IF s.watchId # Null
             THEN [clearWatch(s, s.watchId) EXCEPT !.watchId = Null]
             ELSE s
  IN [c EXCEPT !.isRunning = FALSE, !.time = 0, !.distance = 0,
               !.currentPace = "0:00", !.positions = <<>>, !.laps = <<>>,
               !.activityCompleted = FALSE,
               !.activity = <<>>, !.lastPositionsRef = <<>>,
               !.startTimeRef = Null, !.recentPacesRef = <<>>]

\* a reset that clears the error as well
resetState_ClearsError(s) ==
  LET c == IF s.watchId # Null
             THEN [clearWatch(s, s.watchId) EXCEPT !.watchId = Null]
             ELSE s
  IN [c EXCEPT !.isRunning = FALSE, !.time = 0, !.distance = 0,
               !.currentPace = "0:00", !.positions = <<>>, !.laps = <<>>,
               !.heartRateData = <<>>, !.activityCompleted = FALSE,
               !.activity = <<>>, !.lastPositionsRef = <<>>,
               !.startTimeRef = Null, !.recentPacesRef = <<>>,
               !.error = NoError]

\* reset(): clears the watch, every state field and the refs
resetState(s) ==
  LET c == IF s.watchId # Null
             THEN [clearWatch(s, s.watchId) EXCEPT !.watchId = Null]
             ELSE s
  IN [c EXCEPT !.isRunning = FALSE, !.time = 0, !.distance = 0,
               !.currentPace = "0:00", !.positions = <<>>, !.laps = <<>>,
               !.heartRateData = <<>>, !.activityCompleted = FALSE,
               !.activity = <<>>, !.lastPositionsRef = <<>>,
               !.startTimeRef = Null, !.recentPacesRef = <<>>]

reset ==
  /\ ControlsEnabled
  /\ Becomes(Commit(Cur, resetState(Cur), TRUE))
  /\ last' = "reset"

\* a lap numbered from zero
newLap_CountsFromZero(s) ==
  [number |-> Len(s.laps),
   time |-> formatTime(s.time),
   distance |-> s.distance,
   pace |-> s.currentPace,
   avgHeartRate |-> averageHeartRate(s.heartRateData)]

newLap(s) ==
  [number |-> Len(s.laps) + 1,
   time |-> formatTime(s.time),
   distance |-> s.distance,
   pace |-> s.currentPace,
   avgHeartRate |-> averageHeartRate(s.heartRateData)]

recordLap ==
  /\ ControlsEnabled
  /\ isRunning => Room
  /\ IF ~isRunning
       THEN Becomes(Cur)
       ELSE Becomes(Commit(Cur, [Cur EXCEPT !.laps = Append(@, newLap(Cur))],
                           FALSE))
  /\ last' = "recordLap"

\* the interval callback: setTime((prevTime) => prevTime + 1)
tick ==
  /\ mounted
  /\ timerDue # Null
  /\ now >= timerDue
  /\ time < MaxTime
  /\ Becomes(Commit(Cur, [Cur EXCEPT !.time = @ + 1], FALSE))
  /\ last' = "tick"

\* the pace block without the 5-second throttle
paceUpdate_NoThrottle(s, ref) ==
  LET recent == getRecentPositions(ref, IF s.variant = "part_001"
                                          THEN PaceWindowSeconds
                                          ELSE MapPaceWindowSeconds)
      recentDistance == calculateTotalDistance(recent)
      recentTime == recent[Len(recent)].timestamp - recent[1].timestamp
      pace == Fraction(recentTime * UnitsPerKm, recentDistance * UnitsPerMinute)
      pushed == Append(s.recentPacesRef, pace)
      kept == IF Len(pushed) > MaxRecentPaces THEN Tail(pushed) ELSE pushed
  IN IF s.variant = "part_001"
       THEN LET t == [s EXCEPT !.lastPaceUpdateRef = s.now]
            IN IF Len(recent) > 1 /\ recentTime > 0 /\ recentDistance > 0
                 THEN [t EXCEPT !.recentPacesRef = kept,
                                !.currentPace = formatPace(averagePace(kept)),
                                !.pushLog = Append(@, [at |-> s.now,
                                                       pace |-> pace])]
                 ELSE t
       ELSE IF Len(recent) > 1 /\ recentTime > 0
              THEN [s EXCEPT !.currentPace = formatPace(pace)]
              ELSE s

\* the pace block of the watchPosition success callback, over the positions
\* `ref` that lastPositionsRef.current holds while the callback runs
paceUpdate(s, ref) ==
  LET recent == getRecentPositions(ref, IF s.variant = "part_001"
                                          THEN PaceWindowSeconds
                                          ELSE MapPaceWindowSeconds)
      recentDistance == calculateTotalDistance(recent)
      recentTime == recent[Len(recent)].timestamp - recent[1].timestamp
      pace == Fraction(recentTime * UnitsPerKm, recentDistance * UnitsPerMinute)
      pushed == Append(s.recentPacesRef, pace)
      kept == IF Len(pushed) > MaxRecentPaces THEN Tail(pushed) ELSE pushed
  IN IF s.variant = "part_001"
       THEN IF s.now - s.lastPaceUpdateRef > PaceThrottle
              THEN LET t == [s EXCEPT !.lastPaceUpdateRef = s.now]
                   IN IF Len(recent) > 1 /\ recentTime > 0 /\ recentDistance > 0
                        THEN [t EXCEPT !.recentPacesRef = kept,
                                       !.currentPace = formatPace(averagePace(kept)),
                                       !.pushLog = Append(@, [at |-> s.now,
                                                              pace |-> pace])]
                        ELSE t
              ELSE s
       ELSE IF Len(recent) > 1 /\ recentTime > 0
              THEN [s EXCEPT !.currentPace = formatPace(pace)]
              ELSE s

\* the position the success callback records for the delivered coordinates
newPosition(coords, timestamp) ==
  [latitude |-> coords.latitude,
   longitude |-> coords.longitude,
   latitude_accuracy |-> coords.accuracy,
   longitude_accuracy |-> coords.accuracy,
   altitude |-> OrUndefined(coords.altitude),
   altitude_accuracy |-> OrUndefined(coords.altitudeAccuracy),
   timestamp |-> timestamp]

\* the success callback keeping the fixes in the order of their timestamps
positionReceivedAt_Sorted(s, coords, timestamp, eager) ==
  LET fix == newPosition(coords, timestamp)
      k == Cardinality({i \in 1..Len(s.positions) :
                          s.positions[i].timestamp <= timestamp})
      updated == SubSeq(s.positions, 1, k) \o <<fix>>
                   \o SubSeq(s.positions, k + 1, Len(s.positions))
      ref == IF eager THEN updated ELSE s.lastPositionsRef
      s1 == [s EXCEPT !.positions = updated, !.lastPositionsRef = updated]
  IN IF Len(ref) > 1
       THEN LET newDistance == calculateTotalDistance(ref)
                s2 == [s1 EXCEPT !.distance = newDistance]
            IN IF s.watchTime > 0 /\ newDistance > 0
                 THEN paceUpdate(s2, ref)
                 ELSE s2
       ELSE s1

\* the watchPosition success callback for a fix of the given
\* position.timestamp.  React may run the setPositions updater at once
\* (eager) or only in the next render; the callback reads
\* lastPositionsRef.current right after queueing it.
positionReceivedAt(s, coords, timestamp, eager) ==
  LET updated == Append(s.positions, newPosition(coords, timestamp))
      ref == IF eager THEN updated ELSE s.lastPositionsRef
      s1 == [s EXCEPT !.positions = updated, !.lastPositionsRef = updated]
  IN IF Len(ref) > 1
       THEN LET newDistance == calculateTotalDistance(ref)
                s2 == [s1 EXCEPT !.distance = newDistance]
            IN IF s.watchTime > 0 /\ newDistance > 0
                 THEN paceUpdate(s2, ref)
                 ELSE s2
       ELSE s1

\* a fix measured as it is delivered
positionReceived(s, coords, eager) ==
  positionReceivedAt(s, coords, s.now, eager)

watchPositionSuccess ==
  /\ mounted
  /\ watchActive
  /\ Room
  /\ \E coords \in Coords, eager \in BOOLEAN :
       Becomes(Commit(Cur, positionReceived(Cur, coords, eager), FALSE))
  /\ last' = "position"

\* the error callback without setIsRunning(false)
positionError_KeepsRunning(s, code) ==
  IF code = 1
    THEN [s EXCEPT !.permissionDenied = TRUE]
    ELSE [s EXCEPT !.error = "Error: position unavailable"]

\* the watchPosition error callback
positionError(s, code) ==
  LET s1 == IF code = 1
              THEN [s EXCEPT !.permissionDenied = TRUE]
              ELSE [s EXCEPT !.error = "Error: position unavailable"]
  IN [s1 EXCEPT !.isRunning = FALSE]

watchPositionError ==
  /\ mounted
  /\ watchActive
  /\ \E code \in ErrorCodes :
       /\ Becomes(Commit(Cur, positionError(Cur, code), FALSE))
       /\ last' = IF code = 1 THEN "permissionError" ELSE "locationError"

\* the characteristicvaluechanged listener; a read past the end of the
\* DataView throws before any state is set
heartRateChanged(s, value) ==
  LET rate == decodeMeasurement(value)
  IN IF rate = Null THEN s
     ELSE [s EXCEPT !.heartRate = rate,
                    !.heartRateData =
                      Append(@, [timestamp |-> s.now, heartRate |-> rate])]

characteristicValueChanged ==
  /\ mounted
  /\ gattConnected
  /\ hrListening
  /\ Room
  /\ \E value \in Buffers :
       /\ Becomes(Commit(Cur, heartRateChanged(Cur, value), FALSE))
       /\ last' = IF decodeMeasurement(value) = Null
                    THEN "heartRateThrown" ELSE "heartRate"

\* a connect that reports success before the service is found
connectResult_ConnectedEarly(s, outcome) ==
  LET failed == "Failed to connect to heart rate monitor"
  IN IF ~s.bluetooth \/ outcome = "cancelled"
       THEN [s EXCEPT !.error = failed]
       ELSE IF outcome = "gattFailed"
         THEN [s EXCEPT !.gattConnected = FALSE, !.hrListening = FALSE,
                        !.error = failed]
         ELSE IF outcome = "serviceFailed"
           THEN [s EXCEPT !.gattConnected = TRUE, !.hrListening = FALSE,
                          !.isHeartRateConnected = TRUE, !.error = failed]
           ELSE [s EXCEPT !.gattConnected = TRUE, !.hrListening = TRUE,
                          !.isHeartRateConnected = TRUE]

\* connectHeartRateMonitor, by how far the awaited steps get
connectResult(s, outcome) ==
  LET failed == "Failed to connect to heart rate monitor"
  IN IF ~s.bluetooth \/ outcome = "cancelled"
       THEN [s EXCEPT !.error = failed]
       ELSE IF outcome = "gattFailed"
         THEN [s EXCEPT !.gattConnected = FALSE, !.hrListening = FALSE,
                        !.error = failed]
         ELSE IF outcome = "serviceFailed"
           THEN [s EXCEPT !.gattConnected = TRUE, !.hrListening = FALSE,
                          !.error = failed]
           ELSE [s EXCEPT !.gattConnected = TRUE, !.hrListening = TRUE,
                          !.isHeartRateConnected = TRUE]

connectHeartRateMonitor ==
  /\ ConnectEnabled
  /\ \E outcome \in ConnectOutcomes :
       /\ Becomes(Commit(Cur, connectResult(Cur, outcome), FALSE))
       /\ last' = IF ~bluetooth \/ outcome # "connected"
                    THEN "connectFailed" ELSE "connect"

\* a disconnect that leaves the displayed rate
gattDisconnected_KeepsRate(s) ==
  [s EXCEPT !.gattConnected = FALSE, !.hrListening = FALSE,
            !.isHeartRateConnected = FALSE]

\* the gattserverdisconnected listener
gattDisconnected(s) ==
  [s EXCEPT !.gattConnected = FALSE, !.hrListening = FALSE,
            !.isHeartRateConnected = FALSE, !.heartRate = Null]

gattServerDisconnected ==
  /\ mounted
  /\ gattConnected
  /\ Becomes(Commit(Cur, gattDisconnected(Cur), FALSE))
  /\ last' = "gattDisconnected"

\* disconnectHeartRateMonitor: gatt.disconnect() when connected (which fires
\* gattserverdisconnected), then the two setters
disconnectHeartRateMonitor ==
  /\ DisconnectEnabled
  /\ Becomes(Commit(Cur, gattDisconnected(Cur), FALSE))
  /\ last' = "disconnect"

\* an unmount whose GPS effect returned no clean-up
unmounted_KeepsWatch(s) ==
  LET d == IF s.timerRef # Null THEN clearInterval(s) ELSE s
  IN [d EXCEPT !.mounted = FALSE, !.isRunning = FALSE, !.time = 0,
               !.distance = 0, !.currentPace = "0:00", !.positions = <<>>,
               !.laps = <<>>, !.watchId = Null, !.permissionDenied = FALSE,
               !.error = NoError, !.heartRate = Null, !.heartRateData = <<>>,
               !.isHeartRateConnected = FALSE, !.bluetoothSupported = TRUE,
               !.activityCompleted = FALSE, !.activity = <<>>,
               !.timerRef = Null, !.lastPositionsRef = <<>>,
               !.startTimeRef = Null, !.lastPaceUpdateRef = 0,
               !.recentPacesRef = <<>>, !.watchTime = 0,
               !.pushLog = <<>>]

\* unmount: the clean-ups of the timer and the GPS effect run and the
\* component's state and refs are gone; the peripheral is left as it is
unmounted(s) ==
  LET c == IF s.timerRef # Null THEN clearInterval(s) ELSE s
      d == IF c.watchId # Null THEN clearWatch(c, c.watchId) ELSE c
  IN [d EXCEPT !.mounted = FALSE, !.isRunning = FALSE, !.time = 0,
               !.distance = 0, !.currentPace = "0:00", !.positions = <<>>,
               !.laps = <<>>, !.watchId = Null, !.permissionDenied = FALSE,
               !.error = NoError, !.heartRate = Null, !.heartRateData = <<>>,
               !.isHeartRateConnected = FALSE, !.bluetoothSupported = TRUE,
               !.activityCompleted = FALSE, !.activity = <<>>,
               !.timerRef = Null, !.lastPositionsRef = <<>>,
               !.startTimeRef = Null, !.lastPaceUpdateRef = 0,
               !.recentPacesRef = <<>>, !.watchTime = 0,
               !.pushLog = <<>>]

unmount ==
  /\ mounted
  /\ Becomes(unmounted(Cur))
  /\ last' = "unmount"

\* exportGPX: the Blob offered through a temporary link; no state is set
exportGPX ==
  /\ ExportEnabled
  /\ download' = IF activity = <<>> THEN <<>>
                 ELSE <<[name |-> "run_" \o datePart(activity[1].startTime)
                                   \o ".gpx",
                         type |-> "application/gpx+xml",
                         gpx |-> generateGPX(activity[1])]>>
  /\ last' = "export"
  /\ UNCHANGED <<variant, geolocation, bluetooth, mounted, now, isRunning,
                 time, distance, currentPace, positions, laps, watchId,
                 permissionDenied, error, heartRate, heartRateData,
                 isHeartRateConnected, bluetoothSupported, activityCompleted,
                 activity, timerRef, lastPositionsRef, startTimeRef,
                 lastPaceUpdateRef, recentPacesRef, timerDue, watchActive,
                 watchTime, gattConnected, hrListening, pushLog, twin>>

\* a second passes; a due interval fires before the clock moves on
advance ==
  /\ mounted
  /\ now < NowInit + MaxNow
  /\ timerDue # Null => now < timerDue
  /\ Becomes([Cur EXCEPT !.now = @ + 1])
  /\ last' = "advance"

(***************************************************************************)
(* A finished session: the inputs of the export and of the decoder.        *)
(***************************************************************************)
ExportStart == NowInit - 5 * UnitsPerSecond
ExportNow == NowInit + 25 * UnitsPerSecond
ExportFixTimes == {NowInit, NowInit + 10 * UnitsPerSecond}
ExportSampleTimes ==
  {NowInit - 10 * UnitsPerSecond, NowInit + 10 * UnitsPerSecond,
   NowInit + 21 * UnitsPerSecond}
ExportRates == {0, 60}

\* the sequences of at most n elements of S with non-decreasing timestamps
RECURSIVE TimedSeqs(_, _)
TimedSeqs(S, n) ==
  IF n = 0 THEN {<<>>}
  ELSE LET shorter == TimedSeqs(S, n - 1)
       IN shorter \cup
          { Append(q, x) : q \in { r \in shorter : Len(r) = n - 1 }, x \in S }

NonDecreasing(q) ==
  \A i \in 1..(Len(q) - 1) : q[i].timestamp <= q[i + 1].timestamp

ExportFixSeqs ==
  { q \in TimedSeqs({ newPosition(c, ts) : c \in Coords, ts \in ExportFixTimes },
                    MaxExportFixes) : q # <<>> /\ NonDecreasing(q) }

ExportSampleSeqs ==
  { q \in TimedSeqs({ [timestamp |-> ts, heartRate |-> r] :
                        ts \in ExportSampleTimes, r \in ExportRates },
                    MaxExportSamples) : NonDecreasing(q) }

\* stopped with an Activity; the monitor (running_map only: part_001 cannot
\* connect one) is still connected
InitExport ==
  /\ variant \in Variants
  /\ geolocation = TRUE
  /\ bluetooth = TRUE
  /\ mounted = TRUE
  /\ now = ExportNow
  /\ isRunning = FALSE
  /\ time = 25
  /\ currentPace = "0:00"
  /\ positions \in ExportFixSeqs
  /\ heartRateData \in IF variant = "part_001" THEN {<<>>} ELSE ExportSampleSeqs
  /\ distance = calculateTotalDistance(positions)
  /\ laps = <<>>
  /\ watchId = Null
  /\ permissionDenied = FALSE
  /\ error = NoError
  /\ heartRate = IF heartRateData = <<>> THEN Null
                 ELSE heartRateData[Len(heartRateData)].heartRate
  /\ isHeartRateConnected = (variant = "running_map")
  /\ bluetoothSupported = TRUE
  /\ activityCompleted = TRUE
  /\ activity = <<[startTime |-> ExportStart,
                   endTime |-> ExportNow,
                   totalTime |-> time,
                   totalDistance |-> distance,
                   positions |-> positions,
                   heartRates |-> heartRateData,
                   laps |-> laps]>>
  /\ timerRef = TimerId
  /\ lastPositionsRef = positions
  /\ startTimeRef = ExportStart
  /\ lastPaceUpdateRef = 0
  /\ recentPacesRef = <<>>
  /\ timerDue = Null
  /\ watchActive = FALSE
  /\ watchTime = 0
  /\ gattConnected = (variant = "running_map")
  /\ hrListening = (variant = "running_map")
  /\ download = <<>>
  /\ pushLog = <<>>
  /\ twin = <<>>
  /\ last = "stop"

\* a notification of the connected monitor after the session
measurementNotified ==
  /\ mounted
  /\ gattConnected
  /\ hrListening
  /\ Len(heartRateData) <= MaxExportSamples
  /\ \E value \in WideBuffers :
       /\ Becomes(Commit(Cur, heartRateChanged(Cur, value), FALSE))
       /\ last' = IF decodeMeasurement(value) = Null
                    THEN "heartRateThrown" ELSE "heartRate"

NextExport ==
  \/ exportGPX
  \/ measurementNotified

SpecExport == InitExport /\ [][NextExport]_vars

(***************************************************************************)
(* A session recorded in several segments with pauses between them: the    *)
(* recorder controls, the timer and the fixes, over a longer time.         *)
(***************************************************************************)
InitPace == Init /\ geolocation /\ bluetooth

\* the pauses: shorter and longer than the pace throttle where there is one,
\* else longer than the throttle and longer than the pace window
PaceJumps ==
  IF variant = "part_001" THEN {PaceThrottle - 2, PaceThrottle + 1}
  ELSE {PaceThrottle + 1, MapPaceWindowSeconds + 1}

\* time passes while the recorder is stopped (no interval is live)
PaceHorizon == IF variant = "part_001" THEN MaxHistoryNow ELSE MaxPaceNow

elapse ==
  /\ mounted
  /\ ~isRunning
  /\ timerDue = Null
  /\ \E d \in PaceJumps :
       /\ now + d * UnitsPerSecond <= NowInit + PaceHorizon * UnitsPerSecond
       /\ Becomes([Cur EXCEPT !.now = @ + d * UnitsPerSecond])
  /\ last' = "advance"

\* the watchPosition success callback, for up to MaxPaceFixes fixes, each
\* with a later timestamp than the one before
fixDelivered ==
  /\ mounted
  /\ watchActive
  /\ Len(positions) < MaxPaceFixes
  /\ positions # <<>> => positions[Len(positions)].timestamp < now
  /\ \E coords \in Coords, eager \in BOOLEAN :
       Becomes(Commit(Cur, positionReceived(Cur, coords, eager), FALSE))
  /\ last' = "position"

NextPace ==
  \/ startStop
  \/ tick
  \/ advance
  \/ elapse
  \/ fixDelivered

SpecPace == InitPace /\ [][NextPace]_vars

\* the throttled recorder over sessions that are reset and started again
InitThrottle == InitPace /\ variant = "part_001"

\* a second passes; a due interval fires before the clock moves on
second ==
  /\ mounted
  /\ now + UnitsPerSecond <= NowInit + MaxThrottleNow * UnitsPerSecond
  /\ timerDue # Null => now < timerDue
  /\ Becomes([Cur EXCEPT !.now = @ + UnitsPerSecond])
  /\ last' = "advance"

NextThrottle ==
  \/ startStop
  \/ reset
  \/ tick
  \/ second
  \/ fixDelivered

SpecThrottle == InitThrottle /\ [][NextThrottle]_vars

(***************************************************************************)
(* A location service that delivers a fix it measured earlier after one    *)
(* it measured later, and a connected heart-rate monitor.                  *)
(***************************************************************************)
InitOrder == Init /\ geolocation /\ bluetooth

\* the watchPosition success callback for a fix whose position.timestamp is
\* up to MaxFixDelay seconds before the delivery
fixStamped ==
  /\ mounted
  /\ watchActive
  /\ Room
  /\ \E coords \in Coords, age \in 0..MaxFixDelay, eager \in BOOLEAN :
       Becomes(Commit(Cur, positionReceivedAt(Cur, coords,
                                              now - age * UnitsPerSecond,
                                              eager), FALSE))
  /\ last' = "position"

NextOrder ==
  \/ startStop
  \/ reset
  \/ tick
  \/ advance
  \/ fixStamped
  \/ connectHeartRateMonitor
  \/ characteristicValueChanged

SpecOrder == InitOrder /\ [][NextOrder]_vars

(***************************************************************************)
(* The two variants side by side: one component of each, mounted together  *)
(* and given the same button presses, the same clock and the same fixes    *)
(* and errors of the one location service.                                 *)
(***************************************************************************)
Twin == twin[1]

InitTwin ==
  /\ InitState
  /\ variant = "part_001"
  /\ geolocation
  /\ bluetooth
  /\ twin = <<[Cur EXCEPT !.variant = "running_map"]>>

\* the reset, start/stop and lap buttons of the component in state s
ControlsOn(s) ==
  /\ s.mounted
  /\ ~s.permissionDenied
  /\ s.variant = "part_001" => s.error = NoError

\* the component in state s holds one more fix or lap
RoomOn(s) == Len(s.positions) + Len(s.laps) + Len(s.heartRateData) < MaxItems

\* the handlers and callbacks as they act on the component in state s
startStopOn(s) == Commit(s, [s EXCEPT !.isRunning = ~@], FALSE)

resetOn(s) == Commit(s, resetState(s), TRUE)

recordLapOn(s) ==
  IF s.isRunning
    THEN Commit(s, [s EXCEPT !.laps = Append(@, newLap(s))], FALSE)
    ELSE s

timerDueOn(s) == s.timerDue # Null /\ s.now >= s.timerDue

tickOn(s) ==
  IF timerDueOn(s) THEN Commit(s, [s EXCEPT !.time = @ + 1], FALSE) ELSE s

positionOn(s, coords, eager) ==
  IF s.watchActive
    THEN Commit(s, positionReceived(s, coords, eager), FALSE)
    ELSE s

positionErrorOn(s, code) ==
  IF s.watchActive THEN Commit(s, positionError(s, code), FALSE) ELSE s

advanceOn(s) == [s EXCEPT !.now = @ + 1]

\* both components after the same input
Both(s, t) == Settles(s) /\ twin' = <<t>>

twinStartStop ==
  /\ ControlsOn(Cur) /\ ControlsOn(Twin)
  /\ Both(startStopOn(Cur), startStopOn(Twin))
  /\ last' = IF isRunning THEN "stop" ELSE "start"

twinReset ==
  /\ ControlsOn(Cur) /\ ControlsOn(Twin)
  /\ Both(resetOn(Cur), resetOn(Twin))
  /\ last' = "reset"

twinRecordLap ==
  /\ ControlsOn(Cur) /\ ControlsOn(Twin)
  /\ RoomOn(Cur) /\ RoomOn(Twin)
  /\ Both(recordLapOn(Cur), recordLapOn(Twin))
  /\ last' = "recordLap"

\* the intervals that are due fire
twinTick ==
  /\ timerDueOn(Cur) \/ timerDueOn(Twin)
  /\ time < MaxTime /\ Twin.time < MaxTime
  /\ Both(tickOn(Cur), tickOn(Twin))
  /\ last' = "tick"

\* the location service reports a fix to every watch that is active
twinPosition ==
  /\ watchActive \/ Twin.watchActive
  /\ RoomOn(Cur) /\ RoomOn(Twin)
  /\ \E coords \in Coords, eager \in BOOLEAN :
       Both(positionOn(Cur, coords, eager), positionOn(Twin, coords, eager))
  /\ last' = "position"

\* the location service reports an error to every watch that is active
twinPositionError ==
  /\ watchActive \/ Twin.watchActive
  /\ \E code \in ErrorCodes :
       /\ Both(positionErrorOn(Cur, code), positionErrorOn(Twin, code))
       /\ last' = IF code = 1 THEN "permissionError" ELSE "locationError"

twinAdvance ==
  /\ now < NowInit + MaxNow
  /\ ~timerDueOn(Cur) /\ ~timerDueOn(Twin)
  /\ Both(advanceOn(Cur), advanceOn(Twin))
  /\ last' = "advance"

NextTwin ==
  \/ twinStartStop
  \/ twinReset
  \/ twinRecordLap
  \/ twinTick
  \/ twinPosition
  \/ twinPositionError
  \/ twinAdvance

SpecTwin == InitTwin /\ [][NextTwin]_vars

(***************************************************************************)
(* The effect pass after a location error.  The error callback is no React *)
(* event: its state updates are rendered in a later task and the effects   *)
(* of that render (the timer clean-up among them) run in a task after it,  *)
(* so an interval callback that is due may run in between.                 *)
(***************************************************************************)
InitLate == Init /\ geolocation

\* the interval callback on the component whose effects have run for state s
lateTick(s) == Commit(s, [s EXCEPT !.time = @ + 1], FALSE)

\* the error callback, the due interval callback, then the effect pass
watchPositionErrorThenTick ==
  /\ mounted
  /\ watchActive
  /\ timerDue # Null
  /\ now >= timerDue
  /\ time < MaxTime
  /\ \E code \in ErrorCodes :
       /\ Becomes(lateTick(Commit(Cur, positionError(Cur, code), FALSE)))
       /\ last' = IF code = 1 THEN "permissionError" ELSE "locationError"

NextLate ==
  \/ startStop
  \/ reset
  \/ tick
  \/ advance
  \/ watchPositionSuccess
  \/ watchPositionError
  \/ watchPositionErrorThenTick

SpecLate == InitLate /\ [][NextLate]_vars

Next ==
  \/ startStop
  \/ reset
  \/ recordLap
  \/ tick
  \/ watchPositionSuccess
  \/ watchPositionError
  \/ characteristicValueChanged
  \/ connectHeartRateMonitor
  \/ gattServerDisconnected
  \/ disconnectHeartRateMonitor
  \/ unmount
  \/ exportGPX
  \/ advance

Spec == Init /\ [][Next]_vars

(***************************************************************************)
(* Properties.                                                             *)
(***************************************************************************)
HasActivity == activity # <<>>

\* the recorder's accumulated data, as an Activity would carry it
ActivityIsCurrent ==
  /\ activity[1].totalTime = time
  /\ activity[1].totalDistance = distance
  /\ activity[1].positions = positions
  /\ activity[1].heartRates = heartRateData
  /\ activity[1].laps = laps

\* the rule of stop(): an Activity iff elapsed > 0 and at least one fix
StopRule == HasActivity <=> (time > 0 /\ Len(positions) > 0)

\* C1: when stop() leaves Recording, an Activity is produced if and only if
\* the elapsed-seconds counter is > 0 and at least one fix has been recorded.
C1_StopProducesActivityIff ==
  last = "stop" =>
    /\ ~isRunning
    /\ StopRule
    /\ activityCompleted <=> HasActivity
    /\ HasActivity => activity[1].endTime = now

C1_Witness == last = "stop" /\ HasActivity /\ time > 0 /\ Len(positions) > 0

\* C2: the Activity a successful stop() produces carries the elapsed seconds,
\* the cumulative distance and, element for element, the fix, heart-rate and
\* lap sequences at the moment of the stop.
C2_ActivityCarriesSession ==
  (last = "stop" /\ HasActivity) => ActivityIsCurrent

C2_Witness ==
  /\ last = "stop"
  /\ HasActivity
  /\ Len(activity[1].positions) = 1
  /\ Len(activity[1].laps) = 1
  /\ Len(activity[1].heartRates) = 1

\* C3: once stop() has produced an Activity it stays unchanged under every
\* later event (heart-rate samples while stopped included) until the next
\* stop(), reset(), forced stop by a location failure, or teardown.
C3_ActivityImmutable ==
  [][(HasActivity /\ last' \notin {"stop", "reset", "permissionError",
                                   "locationError", "unmount"})
       => activity' = activity]_vars

\* C4: from start() until the next stop(), reset() or location error the
\* location subscription stays active, timer ticks notwithstanding.
C4_WatchActiveWhileRecording ==
  (mounted /\ geolocation /\ isRunning) => watchActive

\* C5: whenever the recorder is not Recording (after stop(), reset(), a
\* location error or teardown) no location subscription is active, and a fix
\* is only ever appended while Recording.
C5_NoWatchUnlessRecording ==
  /\ ~isRunning => ~watchActive
  /\ last = "position" => isRunning

C5_Witness ==
  /\ last = "locationError"
  /\ ~isRunning
  /\ ~watchActive
  /\ Len(positions) > 0

\* C6: after reset() the recorder is not running, elapsed time and distance
\* are 0, the pace string is "0:00", the fix, heart-rate and lap sequences and
\* the pace history are empty, and no Activity exists.
C6_ResetWipes ==
  last = "reset" =>
    /\ ~isRunning
    /\ time = 0
    /\ distance = 0
    /\ currentPace = "0:00"
    /\ positions = <<>>
    /\ heartRateData = <<>>
    /\ laps = <<>>
    /\ recentPacesRef = <<>>
    /\ ~HasActivity
    /\ ~activityCompleted

\* a reset() of a session that had run (timer once set) and had a heart rate
C6_Witness == last = "reset" /\ timerRef # Null /\ heartRate # Null

\* m:ss of a time below one hour, written out independently of formatTime
TwoDigits(n) == ToString(n \div 10) \o ToString(n % 10)
ExpectedLapTime(t) == ToString(t \div 60) \o ":" \o TwoDigits(t % 60)

\* C7: recordLap() while Recording appends exactly one Lap with number =
\* previous lap count + 1, the formatted elapsed time (m:ss, h:mm:ss from one
\* hour on), the current distance and the current pace string; recordLap()
\* while not Recording changes no state.
C7_RecordLap ==
  /\ formatTime(20) = "0:20"
  /\ formatTime(599) = "9:59"
  /\ formatTime(3599) = "59:59"
  /\ formatTime(3600) = "1:00:00"
  /\ formatTime(3661) = "1:01:01"
  /\ [][last' = "recordLap" =>
          IF isRunning
            THEN /\ Len(laps') = Len(laps) + 1
                 /\ SubSeq(laps', 1, Len(laps)) = laps
                 /\ laps'[Len(laps')].number = Len(laps) + 1
                 /\ laps'[Len(laps')].time = ExpectedLapTime(time)
                 /\ laps'[Len(laps')].distance = distance
                 /\ laps'[Len(laps')].pace = currentPace
                 /\ UNCHANGED <<isRunning, time, distance, currentPace,
                                positions, heartRateData, activity>>
            ELSE UNCHANGED <<variant, geolocation, bluetooth, mounted, now,
                             isRunning, time, distance, currentPace,
                             positions, laps, watchId, permissionDenied,
                             error, heartRate, heartRateData,
                             isHeartRateConnected, bluetoothSupported,
                             activityCompleted, activity, timerRef,
                             lastPositionsRef, startTimeRef,
                             lastPaceUpdateRef, recentPacesRef, timerDue,
                             watchActive, watchTime, gattConnected,
                             hrListening>>]_vars

C7_Witness ==
  /\ last = "recordLap"
  /\ isRunning
  /\ Len(laps) = 2
  /\ laps[2].number = 2
  /\ laps[2].time = "0:01"

C9_LocationFailureStops ==
  /\ last = "permissionError" =>
       /\ ~isRunning
       /\ permissionDenied
       /\ ~watchActive
       /\ StopRule
       /\ HasActivity => ActivityIsCurrent /\ activity[1].endTime = now
  /\ last = "locationError" =>
       /\ ~isRunning
       /\ error # NoError
       /\ ~watchActive
       /\ StopRule
       /\ HasActivity => ActivityIsCurrent /\ activity[1].endTime = now

C9_Witness ==
  /\ last = "permissionError"
  /\ HasActivity
  /\ permissionDenied
  /\ Len(positions) > 0

Controls == {"start", "stop", "reset", "recordLap"}

\* C10: once permissionDenied is set the start/stop, reset and lap controls
\* are blocked: while the component lives the condition stays set, the
\* recorder is never Recording, and none of those controls acts again.
C10_PermissionDeniedBlocksControls ==
  /\ [](permissionDenied => ~isRunning)
  /\ [][(permissionDenied /\ mounted') =>
          /\ permissionDenied'
          /\ last' \notin Controls
          /\ UNCHANGED <<time, positions, laps>>]_vars

\* permission denied in a session with a lap, some event later
C10_Witness ==
  /\ permissionDenied
  /\ last \notin {"permissionError"}
  /\ time > 0
  /\ Len(laps) > 0
  /\ Len(positions) > 0

\* C11: when a step of connecting the heart-rate monitor fails or is
\* cancelled, the heart-rate state stays disconnected (no current rate, no
\* listener), an error message is set, and the running flag, elapsed time,
\* distance, pace, fixes, laps and Activity are left as they were.
C11_ConnectFailureLeavesRecorder ==
  [][last' = "connectFailed" =>
       /\ ~isHeartRateConnected'
       /\ ~hrListening'
       /\ heartRate' = Null
       /\ error' # NoError
       /\ UNCHANGED <<isRunning, time, distance, currentPace, positions, laps,
                      activity, activityCompleted, heartRateData>>]_vars

\* a connect that failed after the GATT link was up, with an Activity held
C11_Witness ==
  /\ last = "connectFailed"
  /\ gattConnected
  /\ ~isHeartRateConnected
  /\ HasActivity
  /\ error # NoError

\* C12: the connect affordance is disabled when the host lacks Bluetooth, and
\* enabled when the host supports Bluetooth and the recorder is not Recording
\* (the stats panel being shown, no monitor connected).
C12_ConnectAffordance ==
  (mounted /\ PanelRendered /\ ~isHeartRateConnected) =>
    /\ ~bluetooth => ~ConnectEnabled
    /\ (bluetooth /\ ~isRunning) => ConnectEnabled

\* C13: a heart-rate notification with a zero-length value is silently
\* ignored: no failure propagates uncaught out of the notification handler.
C13_ZeroLengthIgnored == last # "heartRateThrown"

\* C20: whenever an Activity exists, the export action is available to the
\* user, also when a location failure finalized the Activity, until reset()
\* discards it.
C20_ExportAvailable ==
  (mounted /\ HasActivity) => ExportEnabled

(***************************************************************************)
(* Properties of the export and the decoder, over finished sessions.       *)
(***************************************************************************)
Exported == last = "export" /\ download # <<>>

TrackPoints == download[1].gpx.trkseg

Tags(point) == [k \in 1..Len(point.children) |-> point.children[k].tag]

\* the texts of the children of `point` tagged `tag`
Texts(point, tag) ==
  { point.children[k].text :
      k \in { j \in 1..Len(point.children) : point.children[j].tag = tag } }

\* |target - samples[j].timestamp|
Diff(samples, j, target) ==
  IF target >= samples[j].timestamp
    THEN target - samples[j].timestamp
    ELSE samples[j].timestamp - target

\* the sample closestSample is to pick: none past the window, else the
\* earliest of the samples at the least distance
Expected(samples, target) ==
  IF samples = <<>> THEN Null
  ELSE LET least == CHOOSE d \in { Diff(samples, j, target) : j \in 1..Len(samples) } :
                      \A j \in 1..Len(samples) : d <= Diff(samples, j, target)
           first == CHOOSE j \in 1..Len(samples) :
                      /\ Diff(samples, j, target) = least
                      /\ \A k \in 1..(j - 1) : Diff(samples, k, target) > least
       IN IF least > 10 * UnitsPerSecond THEN Null
          ELSE samples[first].heartRate

\* C14: closestSample returns none for no samples and when the least
\* timestamp difference exceeds 10 s; otherwise the rate of the sample at the
\* least difference (exactly 10 s included), the earliest among equals.
C14_ClosestSample ==
  HasActivity =>
    \A i \in 1..Len(activity[1].positions) :
      findClosestHeartRate(activity[1].heartRates,
                           activity[1].positions[i].timestamp)
        = Expected(activity[1].heartRates, activity[1].positions[i].timestamp)

\* exported: a fix at NowInit between two samples 10 s away on either side,
\* with different rates; the earlier one is taken
C14_Witness ==
  /\ Exported
  /\ Len(activity[1].heartRates) = 2
  /\ activity[1].heartRates[1] = [timestamp |-> NowInit - 10 * UnitsPerSecond,
                                  heartRate |-> 60]
  /\ activity[1].heartRates[2] = [timestamp |-> NowInit + 10 * UnitsPerSecond,
                                  heartRate |-> 0]
  /\ activity[1].positions[1].timestamp = NowInit
  /\ Texts(TrackPoints[1], "extensions") = {"60"}

\* C15: decodeMeasurement takes byte 0 as flags; with bit 0 set the rate is
\* the little-endian 16-bit value of bytes 1..2, with bit 0 clear the 8-bit
\* value of byte 1, whatever the other flag bits are.
C15_DecodeMeasurement ==
  /\ decodeMeasurement(<<0, 72>>) = 72
  /\ decodeMeasurement(<<1, 150, 0>>) = 150
  /\ decodeMeasurement(<<22, 72>>) = 72
  /\ decodeMeasurement(<<16, 72, 9>>) = 72
  /\ decodeMeasurement(<<17, 44, 1>>) = 300
  /\ \A value \in WideBuffers :
       LET bit0 == value[1] - 2 * (value[1] \div 2)
       IN /\ (Len(value) >= 3 /\ bit0 = 1) =>
               decodeMeasurement(value) = value[2] + value[3] * 256
          /\ (Len(value) >= 2 /\ bit0 = 0) =>
               decodeMeasurement(value) = value[2]
  /\ last = "heartRate" =>
       /\ heartRateData # <<>>
       /\ heartRateData[Len(heartRateData)] =
            [timestamp |-> now, heartRate |-> heartRate]
       /\ heartRate \in { decodeMeasurement(value) : value \in WideBuffers }
                        \ {Null}

\* a notification with flags 0x11 and the bytes 44, 1 has been decoded
C15_Witness ==
  /\ last = "heartRate"
  /\ heartRate = 300
  /\ heartRateData[Len(heartRateData)].heartRate = 300

\* C16: the GPX document holds exactly one track point per fix of the
\* Activity, in recorded order, equal coordinates or timestamps included.
C16_OneTrackPointPerFix ==
  Exported =>
    /\ Len(TrackPoints) = Len(activity[1].positions)
    /\ \A i \in 1..Len(activity[1].positions) :
         /\ TrackPoints[i].lat = activity[1].positions[i].latitude
         /\ TrackPoints[i].lon = activity[1].positions[i].longitude
         /\ Texts(TrackPoints[i], "time")
              = {toISOString(activity[1].positions[i].timestamp)}

\* exported: two fixes with the same coordinates and the same timestamp
C16_Witness ==
  /\ Exported
  /\ Len(activity[1].positions) = 2
  /\ activity[1].positions[1] = activity[1].positions[2]
  /\ Len(TrackPoints) = 2

\* C17: a track point has an <ele> exactly when its fix has an altitude, with
\* that altitude, always has one <time>, and its children come in the order
\* <ele>, <time>, <extensions>.
C17_EleAndTime ==
  Exported =>
    \A i \in 1..Len(TrackPoints) :
      LET pos == activity[1].positions[i]
      IN /\ Texts(TrackPoints[i], "ele") =
              IF pos.altitude = Null THEN {} ELSE {ToString(pos.altitude)}
         /\ Texts(TrackPoints[i], "time") = {toISOString(pos.timestamp)}
         /\ Tags(TrackPoints[i]) \in
              { <<"time">>, <<"ele", "time">>, <<"time", "extensions">>,
                <<"ele", "time", "extensions">> }

\* exported: one fix without altitude and one with, the latter with a rate
C17_Witness ==
  /\ Exported
  /\ Len(TrackPoints) = 2
  /\ activity[1].positions[1].altitude = Null
  /\ Tags(TrackPoints[1]) = <<"time">>
  /\ Tags(TrackPoints[2]) = <<"ele", "time", "extensions">>
  /\ Texts(TrackPoints[2], "ele") = {"7"}

\* C18: a track point has the heart-rate extensions block exactly when
\* closestSample finds a value for the fix timestamp, and the block carries
\* that value, whatever it is.
C18_ExtensionsIffClosest ==
  Exported =>
    \A i \in 1..Len(TrackPoints) :
      LET found == Expected(activity[1].heartRates,
                            activity[1].positions[i].timestamp)
      IN Texts(TrackPoints[i], "extensions") =
           IF found = Null THEN {} ELSE {ToString(found)}

\* C19: each track point of the exported GPX carries the accuracy recorded
\* with its fix.
C19_AccuracyExported ==
  Exported =>
    \A i \in 1..Len(TrackPoints) :
      \E k \in 1..Len(TrackPoints[i].children) :
        /\ TrackPoints[i].children[k].tag \notin {"ele", "time"}
        /\ TrackPoints[i].children[k].text =
             ToString(activity[1].positions[i].latitude_accuracy)

(***************************************************************************)
(* Properties of the timer, the distance, the pace and the monitor.        *)
(***************************************************************************)
\* C22: while Recording the 1-second timer is independent of the other
\* event sources: a fix, a heart-rate sample or a lap mark neither restarts
\* nor delays it.
C22_TimerIndependent ==
  [][(isRunning /\ timerDue # Null
        /\ last' \in {"position", "heartRate", "recordLap"})
       => timerDue' = timerDue]_vars

\* C23: after every fix delivered while Recording the cumulative distance is
\* totalDistance over the whole fix sequence, the new fix included.
C23_DistanceIsCurrent ==
  last = "position" => distance = calculateTotalDistance(positions)

\* the pace window of the variant over the fixes ps
Window(ps) ==
  getRecentPositions(ps, IF variant = "part_001" THEN PaceWindowSeconds
                         ELSE MapPaceWindowSeconds)

\* the window holds two fixes or more, a positive distance and time span
WindowValid(ps) ==
  /\ Len(Window(ps)) > 1
  /\ calculateTotalDistance(Window(ps)) > 0
  /\ Window(ps)[Len(Window(ps))].timestamp > Window(ps)[1].timestamp

\* C24: while Recording, the first segment after a fresh start or a reset
\* included, a fix that arrives more than 5 s after the last pace
\* computation and whose window is valid updates the displayed pace.
C24_PaceComputedInEverySegment ==
  [][(last' = "position"
        /\ distance' = calculateTotalDistance(positions')
        /\ now' - lastPaceUpdateRef > PaceThrottle
        /\ WindowValid(positions'))
       => /\ lastPaceUpdateRef' = IF variant = "part_001" THEN now'
                                   ELSE lastPaceUpdateRef
          /\ currentPace' # "0:00"
          /\ variant = "part_001" => Len(pushLog') = Len(pushLog) + 1]_vars

\* C28: a decoded heart-rate notification is appended to the samples and
\* becomes the current heart rate in every recorder state, and changes no
\* other recorder field.
C28_HeartRateFrame ==
  [][last' = "heartRate" =>
       /\ heartRate' # Null
       /\ heartRateData' = Append(heartRateData, [timestamp |-> now,
                                                  heartRate |-> heartRate'])
       /\ UNCHANGED <<isRunning, time, distance, currentPace, positions,
                      laps, activity, activityCompleted>>]_vars

\* C29: after a peripheral disconnect event or a user-initiated disconnect
\* the connected flag is false and the current heart rate is none; whenever
\* the monitor is not connected the current heart rate is none.
C29_DisconnectedHasNoRate ==
  /\ last \in {"gattDisconnected", "disconnect"} =>
       ~isHeartRateConnected /\ heartRate = Null
  /\ ~isHeartRateConnected => heartRate = Null

\* a disconnect of a monitor that had delivered a rate
C29_Witness ==
  /\ last \in {"gattDisconnected", "disconnect"}
  /\ heartRateData # <<>>
  /\ ~isHeartRateConnected
  /\ heartRate = Null

\* C30: stop(), reset() and teardown disconnect the heart-rate peripheral:
\* after any of them the peripheral is disconnected.
C30_ExitPathsDisconnect ==
  last \in {"stop", "reset", "unmount"} => ~gattConnected

(***************************************************************************)
(* Properties of the pace estimator, over sessions of several segments.    *)
(***************************************************************************)
\* the minutes m and the seconds s of the pace p[1] / p[2], each the one
\* integer below which the value does not fall
ExpectedPace(p) ==
  LET m == CHOOSE m \in 0..p[1] : m * p[2] <= p[1] /\ p[1] < (m + 1) * p[2]
      s == CHOOSE s \in 0..59 :
             /\ s * p[2] <= (p[1] - m * p[2]) * 60
             /\ (p[1] - m * p[2]) * 60 < (s + 1) * p[2]
  IN ToString(m) \o ":" \o TwoDigits(s)

PaceSamples == (0..MaxPaceNum) \X (1..MaxPaceDen)

FormatPaceTable == \A p \in PaceSamples : formatPace(p) = ExpectedPace(p)

FormatPaceExamples ==
  /\ formatPace(<<11, 2>>) = "5:30"
  /\ formatPace(<<4083, 1000>>) = "4:04"
  /\ formatPace(<<599, 100>>) = "5:59"
  /\ formatPace(<<0, 1>>) = "0:00"

\* C21: formatPace(p), p >= 0, is floor(p) minutes, a colon and
\* floor((p - floor(p)) * 60) seconds on two digits: truncated, never
\* rounded, and within 00..59.
C21_FormatPace ==
  /\ FormatPaceExamples
  /\ FormatPaceTable
  /\ (variant = "part_001" /\ recentPacesRef # <<>>) =>
       currentPace = ExpectedPace(averagePace(recentPacesRef))

\* a displayed pace of 13/18 min/km (43.3 s): 13 s over 0.3 km of window
C21_Witness ==
  /\ last = "position"
  /\ variant = "running_map"
  /\ Len(positions) = 4
  /\ positions[4].timestamp - positions[1].timestamp = 13 * UnitsPerSecond
  /\ calculateTotalDistance(positions) = 3
  /\ currentPace = "0:43"

\* C25: a raw pace is computed at most once per 5 seconds: successive pushes
\* into the pace history are more than 5 s apart.
C25_PaceThrottled ==
  \A i \in 1..(Len(pushLog) - 1) :
    pushLog[i + 1].at - pushLog[i].at > 5 * UnitsPerSecond

\* two pushes, a fix in between that came too early to push
C25_Witness ==
  /\ Len(pushLog) = 2
  /\ \E i \in 1..Len(positions) :
       /\ positions[i].timestamp > pushLog[1].at
       /\ positions[i].timestamp < pushLog[2].at

\* the mean of the paces h as one fraction over the product of denominators
RECURSIVE DenProduct(_)
DenProduct(h) == IF h = <<>> THEN 1 ELSE h[1][2] * DenProduct(Tail(h))

RECURSIVE NumSum(_, _)
NumSum(h, d) ==
  IF h = <<>> THEN 0 ELSE h[1][1] * (d \div h[1][2]) + NumSum(Tail(h), d)

MeanOf(h) == <<NumSum(h, DenProduct(h)), DenProduct(h) * Len(h)>>

\* C26: the pace history never holds more than 3 raw paces: a push beyond
\* capacity evicts the oldest, and after each push the displayed pace is the
\* formatted mean of the raw paces then in the history.
C26_PaceHistory ==
  /\ [](Len(recentPacesRef) <= 3)
  /\ [][Len(pushLog') = Len(pushLog) + 1 =>
          LET all == Append(recentPacesRef, pushLog'[Len(pushLog')].pace)
          IN /\ recentPacesRef' = IF Len(all) > 3 THEN SubSeq(all, 2, 4)
                                   ELSE all
             /\ currentPace' = formatPace(MeanOf(recentPacesRef'))]_vars

\* four pushes: the history holds the last three
C26_Witness ==
  /\ Len(pushLog) = 4
  /\ Len(recentPacesRef) = 3
  /\ recentPacesRef = <<pushLog[2].pace, pushLog[3].pace, pushLog[4].pace>>
  /\ pushLog[1].pace # pushLog[2].pace

\* C27: no pace update is emitted when the window has fewer than 2 fixes, no
\* distance or no time span; the displayed pace never comes from a division
\* by a zero distance.
C27_NoPaceFromInvalidWindow ==
  currentPace # "Infinity:NaN"

(***************************************************************************)
(* Properties of the session as a whole.                                   *)
(***************************************************************************)
\* C31: the session start timestamp is captured at the first start() of a
\* session and later stop()/start() cycles leave it; only reset() (and the
\* teardown of the component) clears it, so every Activity of the session
\* carries that first start timestamp, and startTime <= endTime.
C31_SessionStart ==
  /\ [](HasActivity =>
          /\ startTimeRef # Null
          /\ activity[1].startTime = startTimeRef
          /\ activity[1].startTime <= activity[1].endTime)
  /\ [][/\ (startTimeRef = Null /\ last' = "start") => startTimeRef' = now
        /\ (startTimeRef = Null /\ last' # "start") => startTimeRef' = Null
        /\ (startTimeRef # Null /\ last' \notin {"reset", "unmount"}) =>
             startTimeRef' = startTimeRef
        /\ last' = "reset" => startTimeRef' = Null]_vars

\* Recording resumed a second after the first start, the Activity of the
\* stop in between in place
C31_Witness ==
  /\ last = "start"
  /\ HasActivity
  /\ startTimeRef = NowInit
  /\ activity[1].startTime = NowInit
  /\ now > NowInit

\* b is a, or a with one element appended at the end
Extends(a, b) ==
  \/ b = a
  \/ Len(b) = Len(a) + 1 /\ SubSeq(b, 1, Len(a)) = a

\* C32: between resets the fix sequence and the heart-rate sample sequence
\* only grow by appending at the end, in the order the callbacks are
\* delivered: nothing is reordered, modified or removed, also when a fix
\* delivered later carries an earlier timestamp.
C32_AppendOnly ==
  [][/\ last' \notin {"reset", "unmount"} =>
          /\ Extends(positions, positions')
          /\ Extends(heartRateData, heartRateData')
     /\ last' = "position" =>
          /\ Len(positions') = Len(positions) + 1
          /\ heartRateData' = heartRateData
     /\ last' = "heartRate" =>
          /\ heartRateData' =
               Append(heartRateData, [timestamp |-> now, heartRate |-> heartRate'])
          /\ positions' = positions]_vars

\* the second fix delivered was measured before the first; a sample is held
C32_Witness ==
  /\ Len(positions) = 2
  /\ positions[2].timestamp < positions[1].timestamp
  /\ heartRateData # <<>>

\* C33: laps are append-only with 1-based strictly increasing numbers: the
\* i-th lap has number i, every lap mark issued while Recording appends a
\* lap, a recorded lap never changes afterwards, and only reset() (or the
\* teardown of the component) removes laps.
C33_LapsAppendOnly ==
  /\ [](\A i \in 1..Len(laps) : laps[i].number = i)
  /\ [][/\ last' \notin {"reset", "unmount"} => Extends(laps, laps')
        /\ (last' = "recordLap" /\ isRunning) => Len(laps') = Len(laps) + 1
        /\ last' # "recordLap" => Len(laps') <= Len(laps)
        /\ last' = "reset" => laps' = <<>>]_vars

\* two laps of a session, still there after the stop that followed them
C33_Witness ==
  /\ last = "stop"
  /\ Len(laps) = 2
  /\ laps[1].number = 1
  /\ laps[2].number = 2
  /\ HasActivity

\* C34: reset() wipes the whole recorder state, the last-pace-update
\* timestamp of the throttle included: after reset() and start() the first
\* fix with a valid pace window yields a pace, whatever pace update came
\* before the reset.  (No pace is in the history: none was pushed since the
\* reset; the window is that of the fixes as the callback sees them.)
C34_ResetWipesThrottle ==
  [][(/\ last' = "position"
      /\ variant = "part_001"
      /\ watchTime > 0
      /\ recentPacesRef = <<>>
      /\ lastPositionsRef' = positions'
      /\ distance' = calculateTotalDistance(positions')
      /\ distance' > 0
      /\ WindowValid(positions')) => recentPacesRef' # <<>>]_vars

\* what the two variants are to agree on: not the pace strings
LapSeen(lap) ==
  [number |-> lap.number, time |-> lap.time, distance |-> lap.distance]

LapsSeen(ls) == [i \in 1..Len(ls) |-> LapSeen(ls[i])]

ActivitySeen(a) ==
  IF a = <<>> THEN <<>>
  ELSE <<[a[1] EXCEPT !.laps = LapsSeen(@)]>>

Seen(s) ==
  [isRunning |-> s.isRunning, time |-> s.time, positions |-> s.positions,
   distance |-> s.distance, heartRateData |-> s.heartRateData,
   laps |-> LapsSeen(s.laps), activity |-> ActivitySeen(s.activity)]

\* C35: the two variants are the same engine apart from the pace display:
\* given the same start/stop/reset/lap actions, timer ticks, fixes and
\* location errors they agree in every state on the running flag, the
\* elapsed time, the fixes, the distance, the heart-rate samples, the laps'
\* numbers, times and distances, and the Activity.
C35_VariantsAgree ==
  twin # <<>> => Seen(Cur) = Seen(Twin)

IsPrefix(a, b) == Len(a) <= Len(b) /\ SubSeq(b, 1, Len(a)) = a

\* C36: in every state an Activity exists only if the elapsed-seconds
\* counter is > 0 and the fix sequence is non-empty, the activity-completed
\* flag is true exactly when an Activity exists, and the Activity's positions
\* are a prefix of the current fixes with totalTime <= the elapsed seconds.
C36_ActivityInvariant ==
  /\ HasActivity => time > 0 /\ positions # <<>>
  /\ activityCompleted <=> HasActivity
  /\ HasActivity =>
       /\ activity[1].positions # <<>>
       /\ IsPrefix(activity[1].positions, positions)
       /\ activity[1].totalTime <= time

\* Recording again after a stop: a fix more than the Activity holds
C36_Witness ==
  /\ HasActivity
  /\ activityCompleted
  /\ isRunning
  /\ Len(activity[1].positions) < Len(positions)
  /\ activity[1].totalTime = time

\* C37: start() from a Stopped state resumes the same session: it leaves
\* elapsed time, distance, pace, fixes, heart-rate samples and laps as they
\* are, the Activity of the previous stop stays in place while Recording,
\* and the next stop() replaces it with one covering the whole session.
C37_StartResumes ==
  [][/\ last' = "start" =>
          /\ isRunning'
          /\ time' = time
          /\ distance' = distance
          /\ currentPace' = currentPace
          /\ positions' = positions
          /\ heartRateData' = heartRateData
          /\ laps' = laps
          /\ activity' = activity
          /\ activityCompleted' = activityCompleted
     /\ (isRunning /\ isRunning') => activity' = activity
     /\ (last' = "stop" /\ HasActivity) =>
          /\ HasActivity'
          /\ ActivityIsCurrent'
          /\ activity'[1].endTime = now']_vars

\* Recording resumed with the session's time, fix and lap and the Activity
\* of the stop before
C37_Witness ==
  /\ last = "start"
  /\ isRunning
  /\ HasActivity
  /\ time > 0
  /\ positions # <<>>
  /\ laps # <<>>
  /\ ActivityIsCurrent

\* C38: the generic error condition is latched: once it is set (by a
\* location error other than a denied permission, a failed or cancelled
\* heart-rate connection, or missing geolocation support) no action of the
\* mounted component, reset() included, clears it.
C38_ErrorLatched ==
  [][/\ (error # NoError /\ mounted') => error' # NoError
     /\ (last' = "locationError"
         \/ last' = "connectFailed") => error' # NoError]_vars

\* a reset() with the error set: the error is still there
C38_Witness ==
  /\ last = "reset"
  /\ mounted
  /\ error # NoError

\* C39: the elapsed-seconds counter changes only by +1 on a timer tick while
\* Recording, or to 0 on reset() (or teardown): whatever the interleaving of
\* a pending tick with stop(), reset() or a location error, no tick
\* increments the counter once the recorder has left Recording.
C39_TicksOnlyWhileRecording ==
  [][time' # time =>
       \/ last' = "tick" /\ isRunning /\ time' = time + 1
       \/ last' \in {"reset", "unmount"} /\ time' = 0]_vars

\* the coordinates the location service delivered for a recorded fix (each
\* of Coords has a latitude of its own)
Delivered(pos) == CHOOSE c \in Coords : c.latitude = pos.latitude

\* C40: a fix delivered with altitude 0 (or altitude accuracy 0) is recorded
\* with that value present, so that its track point carries an <ele> of 0;
\* only a fix delivered without an altitude is recorded without one.
C40_AltitudeZeroRecorded ==
  \A i \in 1..Len(positions) :
    /\ positions[i].altitude = Delivered(positions[i]).altitude
    /\ positions[i].altitude_accuracy =
         Delivered(positions[i]).altitudeAccuracy
    /\ Delivered(positions[i]).altitude # Null =>
         eleElement(positions[i]) =
           <<Element("ele", ToString(Delivered(positions[i]).altitude))>>

====
